---------------------------- MODULE Spec2Model ----------------------------
(* Page-interaction behaviours of src/js/main.js: the FAQ accordion         *)
(* (initFaqAccordions, toggleFaq), the form validation                      *)
(* (initFormValidation, validateField, showError, clearError), the mobile   *)
(* menu (initMobileMenu), the scroll reveal (initScrollReveal) and the      *)
(* phone formatter (formatPhone).                                           *)
(* The controllers share no data, so each one gets a specification of its   *)
(* own in which the other controllers' variables rest in their initial      *)
(* state.                                                                   *)
EXTENDS Integers, Sequences, FiniteSets, TLC

VARIABLES
    \* ---- FAQ accordion (DOM state of the .faq-item elements) ----
    markup,        \* per .faq-item: which of .faq-question / .faq-answer it holds
    open,          \* per .faq-item: classList.contains('open')
    ariaExpanded,  \* per .faq-item: aria-expanded of its .faq-question
    pc,            \* position inside the click listener of main.js:136-150
    item,          \* the listener's closure variable `item` (0: no run)
    isOpen,        \* the listener's local `isOpen`
    otherItem,     \* index of the forEach of main.js:140 (0: no run)
    openBefore,    \* history: the items open when the last listener run began
    ariaBefore,    \* history: aria-expanded of each trigger at that moment
    keyEvent,      \* the keydown event being handled: its key, defaultPrevented
    lastOp,        \* history: the operation that ran last
    \* ---- form validation (DOM state of the validated forms) ----
    fields,        \* per input: value, type, required, error marker, error target
    focus,         \* document.activeElement: a field, or 0 for none of them
    prevented,     \* defaultPrevented of the event dispatched last
    formEvent,     \* history: the event dispatched last, and the field it blurred
    lastCall,      \* history: the last validateField call of the last listener run
    \* ---- mobile menu (DOM state of the trigger and the drawer) ----
    menu,          \* markup kind, drawer's 'active' class, aria-expanded, icon shown
    menuPc,        \* position of the click being dispatched: which listener is next
    menuEvent,     \* the click dispatched last: its target, the state it found
    \* ---- scroll reveal (DOM state of the elements, the observer) ----
    revealed,      \* per element: classList.contains('revealed')
    observed,      \* the elements the IntersectionObserver observes
    observer,      \* whether an observer was created, how many observe() calls
    reducedMotion, \* matchMedia('(prefers-reduced-motion: reduce)').matches
    revealPc,      \* "load" before initScrollReveal has run, "ready" after
    revealEvent,   \* history: the classes at load, the last batch of entries
    \* ---- phone formatter ----
    phoneInput,    \* input.value of the phone input
    phoneEvent     \* history: what ran last, and the value it found

faqVars == <<markup, open, ariaExpanded, pc, item, isOpen, otherItem, openBefore,
            ariaBefore, keyEvent, lastOp>>

formVars == <<fields, focus, prevented, formEvent, lastCall>>

menuVars == <<menu, menuPc, menuEvent>>

revealVars == <<revealed, observed, observer, reducedMotion, revealPc, revealEvent>>

phoneVars == <<phoneInput, phoneEvent>>

vars == <<faqVars, formVars, menuVars, revealVars, phoneVars>>

\* What a listener of one controller leaves alone: the other controllers
besidesFaq == <<formVars, menuVars, revealVars, phoneVars>>

besidesForm == <<faqVars, menuVars, revealVars, phoneVars>>

besidesMenu == <<faqVars, formVars, revealVars, phoneVars>>

besidesReveal == <<faqVars, formVars, menuVars, phoneVars>>

besidesPhone == <<faqVars, formVars, menuVars, revealVars>>

(***************************************************************************)
(* Bounds                                                                  *)
(***************************************************************************)
NumItems == 4      \* .faq-item elements on the page
GroupSize == 2     \* .faq-item elements per container
MaxUnwired == 1    \* items lacking a .faq-question or a .faq-answer
NumFields == 3     \* inputs of the validated forms of the page
MaxEmailLen == 5   \* longest string enumerated over EmailAlphabet
MaxDigits == 11    \* longest run of digits in an enumerated phone value
NumLinks == 3      \* .mobile-nav-link elements inside the drawer
NumNodes == 3      \* elements of the page the scroll reveal may select
MaxBatch == 2      \* most entries in one call of the observer's callback
NumDirty == 2      \* fields found in any error state when clearError is called
MaxClears == 3     \* most clearError calls in a row on one field

(***************************************************************************)
(* FAQ accordion                                                           *)
(***************************************************************************)
\* document.querySelectorAll('.faq-item'): every item of the page, in
\* document order, whatever container it sits in.
faqItems == 1..NumItems

\* The container (group of siblings) an item sits in.
GroupOf(i) == ((i - 1) \div GroupSize) + 1

MarkupKinds == {"full", "noAnswer", "noQuestion"}

\* item.querySelector('.faq-question') is not null
HasQuestion(i) == markup[i] # "noQuestion"

\* `if (!question || !answer) return;` : the listeners exist on full items only
Wired(i) == markup[i] = "full"

\* setAttribute stringifies the boolean it is given
BoolAttr(b) == IF b THEN "true" ELSE "false"

OpenSet == {i \in faqItems : open[i]}

\* No keydown event is being handled
NoKey == [key |-> "", prevented |-> FALSE]

\* State right after initFaqAccordions: the open class is whatever the page
\* markup says, aria-expanded is "false" on every wired trigger.
FaqInitWith(openSets) ==
    /\ markup \in {m \in [faqItems -> MarkupKinds] :
                     Cardinality({i \in faqItems : m[i] # "full"}) <= MaxUnwired}
    /\ \E s \in openSets : open = [i \in faqItems |-> i \in s]
    /\ ariaExpanded = [i \in faqItems |-> IF markup[i] = "full" THEN "false" ELSE "none"]
    /\ pc = "idle"
    /\ item = 0
    /\ isOpen = FALSE
    /\ otherItem = 0
    /\ openBefore = {}
    /\ ariaBefore = ariaExpanded
    /\ keyEvent = NoKey
    /\ lastOp = "init"

\* question.addEventListener('click', ...) : the listener starts, reads isOpen
Click(i) ==
    /\ pc = "idle"
    /\ Wired(i)
    /\ pc' = "closing"
    /\ item' = i
    /\ isOpen' = open[i]
    /\ otherItem' = 1
    /\ openBefore' = OpenSet
    /\ ariaBefore' = ariaExpanded
    /\ keyEvent' = NoKey
    /\ lastOp' = "click"
    /\ UNCHANGED <<markup, open, ariaExpanded>>
    /\ UNCHANGED besidesFaq

\* A slip of main.js:141: === in place of !==
MustCloseSelf(o) == o = item /\ open[o]

\* The condition of main.js:141
MustClose(o) == o # item /\ open[o]

\* One iteration of faqItems.forEach(otherItem => ...)
CloseOther ==
    /\ pc = "closing"
    /\ otherItem <= NumItems
    /\ IF MustClose(otherItem)
         THEN /\ open' = [open EXCEPT ![otherItem] = FALSE]
              /\ ariaExpanded' = IF HasQuestion(otherItem)
                                   THEN [ariaExpanded EXCEPT ![otherItem] = "false"]
                                   ELSE ariaExpanded
         ELSE UNCHANGED <<open, ariaExpanded>>
    /\ otherItem' = otherItem + 1
    /\ UNCHANGED <<markup, pc, item, isOpen, openBefore, ariaBefore, keyEvent, lastOp>>
    /\ UNCHANGED besidesFaq

\* A slip of main.js:149: isOpen in place of !isOpen
NewExpandedStale == BoolAttr(isOpen)

\* The value main.js:149 gives aria-expanded
NewExpanded == BoolAttr(~isOpen)

\* A slip of main.js:147: classList.add in place of classList.toggle
ToggledOpenAdded == TRUE

\* Whether item.classList.toggle('open') of main.js:147 leaves the class on
ToggledOpen == ~open[item]

\* item.classList.toggle('open'); question.setAttribute('aria-expanded', !isOpen)
ToggleCurrent ==
    /\ pc = "closing"
    /\ otherItem > NumItems
    /\ open' = [open EXCEPT ![item] = ToggledOpen]
    /\ ariaExpanded' = [ariaExpanded EXCEPT ![item] = NewExpanded]
    /\ pc' = IF lastOp = "clickThenInline" THEN "inline" ELSE "idle"
    /\ UNCHANGED <<markup, item, isOpen, otherItem, openBefore, ariaBefore, keyEvent,
                   lastOp>>
    /\ UNCHANGED besidesFaq

\* toggleFaq(button) with button the .faq-question of item i, or (i = 0) an
\* element outside every .faq-item, for which closest() is null.
toggleFaq(i) ==
    /\ pc = "idle"
    /\ IF i = 0
         THEN UNCHANGED <<open, ariaExpanded>>
         ELSE /\ HasQuestion(i)
              /\ open' = [open EXCEPT ![i] = ~open[i]]
              /\ ariaExpanded' = [ariaExpanded EXCEPT ![i] = BoolAttr(~open[i])]
    /\ lastOp' = "toggleFaq"
    /\ keyEvent' = NoKey
    /\ UNCHANGED <<markup, pc, item, isOpen, otherItem, openBefore, ariaBefore>>
    /\ UNCHANGED besidesFaq

ClickStep == (\E i \in faqItems : Click(i)) \/ CloseOther \/ ToggleCurrent

ToggleFaqStep == \E i \in faqItems \cup {0} : toggleFaq(i)

\* e.key of the keydown events tried
Keys == {"Enter", " ", "Tab", "a"}

\* A slip of main.js:154: the Space key forgotten
ActivationKeysEnterOnly == {"Enter"}

\* `e.key === 'Enter' || e.key === ' '` of main.js:154
ActivationKeys == {"Enter", " "}

\* The keydown listener of main.js:153-158 on the trigger of item i, key k:
\* an activation key is default-prevented and question.click() dispatches a
\* click, whose listener starts at once; any other key does nothing.
KeyDown(i, k) ==
    /\ pc = "idle"
    /\ Wired(i)
    /\ item' = i
    /\ openBefore' = OpenSet
    /\ ariaBefore' = ariaExpanded
    /\ lastOp' = "keydown"
    /\ IF k \in ActivationKeys
         THEN /\ keyEvent' = [key |-> k, prevented |-> TRUE]
              /\ pc' = "closing"
              /\ isOpen' = open[i]
              /\ otherItem' = 1
         ELSE /\ keyEvent' = [key |-> k, prevented |-> FALSE]
              /\ UNCHANGED <<pc, isOpen, otherItem>>
    /\ UNCHANGED <<markup, open, ariaExpanded>>
    /\ UNCHANGED besidesFaq

KeyDownStep == \E i \in faqItems : \E k \in Keys : KeyDown(i, k)

\* One click on a trigger that has an inline onclick="toggleFaq(this)" beside
\* the listener of main.js:136. Inline handler first: toggleFaq runs, then
\* the listener starts on what toggleFaq left.
InlineThenClick(i) ==
    /\ pc = "idle"
    /\ Wired(i)
    /\ open' = [open EXCEPT ![i] = ~open[i]]
    /\ ariaExpanded' = [ariaExpanded EXCEPT ![i] = BoolAttr(~open[i])]
    /\ pc' = "closing"
    /\ item' = i
    /\ isOpen' = ~open[i]
    /\ otherItem' = 1
    /\ openBefore' = OpenSet
    /\ ariaBefore' = ariaExpanded
    /\ keyEvent' = NoKey
    /\ lastOp' = "inlineThenClick"
    /\ UNCHANGED markup
    /\ UNCHANGED besidesFaq

\* Listener first: it runs as for any click, the inline handler follows it
ClickThenInline(i) ==
    /\ pc = "idle"
    /\ Wired(i)
    /\ pc' = "closing"
    /\ item' = i
    /\ isOpen' = open[i]
    /\ otherItem' = 1
    /\ openBefore' = OpenSet
    /\ ariaBefore' = ariaExpanded
    /\ keyEvent' = NoKey
    /\ lastOp' = "clickThenInline"
    /\ UNCHANGED <<markup, open, ariaExpanded>>
    /\ UNCHANGED besidesFaq

\* ... toggleFaq(question), called by the inline handler after the listener
InlineAfter ==
    /\ pc = "inline"
    /\ open' = [open EXCEPT ![item] = ~open[item]]
    /\ ariaExpanded' = [ariaExpanded EXCEPT ![item] = BoolAttr(~open[item])]
    /\ pc' = "idle"
    /\ UNCHANGED <<markup, item, isOpen, otherItem, openBefore, ariaBefore, keyEvent,
                   lastOp>>
    /\ UNCHANGED besidesFaq

BothHandlersStep ==
    \/ \E i \in faqItems : InlineThenClick(i)
    \/ \E i \in faqItems : ClickThenInline(i)
    \/ CloseOther
    \/ ToggleCurrent
    \/ InlineAfter

(***************************************************************************)
(* Form validation: strings                                                *)
(***************************************************************************)
\* A string is the sequence of its characters.
WhiteSpace == {" ", "\t", "\n", "\r"}

Digit == {"0", "1", "2", "3", "4", "5", "6", "7", "8", "9"}

\* the class \s
IsSpace(c) == c \in WhiteSpace

\* the class \d
IsDigit(c) == c \in Digit

RECURSIVE TrimStart(_)
TrimStart(v) == IF v # <<>> /\ IsSpace(Head(v)) THEN TrimStart(Tail(v)) ELSE v

RECURSIVE TrimEnd(_)
TrimEnd(v) ==
    IF v # <<>> /\ IsSpace(v[Len(v)]) THEN TrimEnd(SubSeq(v, 1, Len(v) - 1)) ELSE v

\* String.prototype.trim
Trim(v) == TrimEnd(TrimStart(v))

\* the class [^\s@]
LocalChar(c) == ~IsSpace(c) /\ c # "@"

\* every character of v[a..b] is in [^\s@], and there is at least one
LocalRun(v, a, b) == a <= b /\ \A k \in a..b : LocalChar(v[k])

\* A slip of main.js:219: the pattern without its \.[^\s@]+ part
emailRegexNoDot(v) ==
    \E at \in 1..Len(v) :
        v[at] = "@" /\ LocalRun(v, 1, at - 1) /\ LocalRun(v, at + 1, Len(v))

\* /^[^\s@]+@[^\s@]+\.[^\s@]+$/.test(v): some "@" and some later "." split v
\* into three non-empty runs of [^\s@]
emailRegex(v) ==
    \E at \in 1..Len(v) : \E dot \in 1..Len(v) :
        /\ v[at] = "@" /\ v[dot] = "."
        /\ LocalRun(v, 1, at - 1)
        /\ LocalRun(v, at + 1, dot - 1)
        /\ LocalRun(v, dot + 1, Len(v))

\* the class [\d\s\-\(\)\+]
PhoneChar(c) == IsDigit(c) \/ IsSpace(c) \/ c \in {"-", "(", ")", "+"}

\* /^[\d\s\-\(\)\+]+$/.test(v)
phoneRegex(v) == Len(v) >= 1 /\ \A k \in 1..Len(v) : PhoneChar(v[k])

\* v.replace(/\D/g, '')
DigitsOf(v) == SelectSeq(v, IsDigit)

\* A slip of main.js:229: <= in place of <
TooFewDigitsOffByOne(v) == Len(DigitsOf(v)) <= 10

\* value.replace(/\D/g, '').length < 10
TooFewDigits(v) == Len(DigitsOf(v)) < 10

(***************************************************************************)
(* Form validation: fields                                                 *)
(***************************************************************************)
MsgRequired == "This field is required"
MsgEmail == "Please enter a valid email address"
MsgPhone == "Please enter a valid phone number"

\* input.type of the inputs, textareas and selects of a form
Types == {"text", "email", "tel", "textarea"}

\* showError(input, message)
showError(f, message) ==
    [f EXCEPT !.error = TRUE,
              !.errText = IF f.hasErrorEl THEN message ELSE @,
              !.errDisplay = IF f.hasErrorEl THEN "block" ELSE @]

\* A slip of main.js:251: classList.toggle in place of classList.remove
clearErrorToggling(f) ==
    [f EXCEPT !.error = ~f.error,
              !.errText = IF f.hasErrorEl THEN "" ELSE @,
              !.errDisplay = IF f.hasErrorEl THEN "none" ELSE @]

\* clearError(input)
clearError(f) ==
    [f EXCEPT !.error = FALSE,
              !.errText = IF f.hasErrorEl THEN "" ELSE @,
              !.errDisplay = IF f.hasErrorEl THEN "none" ELSE @]

\* A slip of main.js:204: the trim left out
FieldValueRaw(f) == f.value

\* `const value = input.value.trim()` of main.js:204
FieldValue(f) == Trim(f.value)

\* `required && !value` of main.js:212
RequiredFails(f, value) == f.required /\ value = <<>>

\* `type === 'email' && value` and `!emailRegex.test(value)` of main.js:218-220
EmailFails(f, value) == f.type = "email" /\ value # <<>> /\ ~emailRegex(value)

\* `type === 'tel' && value` and the condition of main.js:229
PhoneFails(f, value) ==
    f.type = "tel" /\ value # <<>> /\ (~phoneRegex(value) \/ TooFewDigits(value))

\* The regular expressions a validateField call tests its value against: none
\* once the required check has returned, and none for an empty value.
PatternsTested(f, value) ==
    IF RequiredFails(f, value) THEN {}
    ELSE IF f.type = "email" /\ value # <<>> THEN {"emailRegex"}
    ELSE IF f.type = "tel" /\ value # <<>> THEN {"phoneRegex"}
    ELSE {}

\* validateField(input): the field it leaves, the value it returns, the
\* message it gave showError ("" when it showed none) and the patterns tested.
validateField(f) ==
    LET value == FieldValue(f)
        message == IF RequiredFails(f, value) THEN MsgRequired
                   ELSE IF EmailFails(f, value) THEN MsgEmail
                   ELSE IF PhoneFails(f, value) THEN MsgPhone
                   ELSE ""
    IN [field |-> IF message = "" THEN clearError(f)
                  ELSE showError(clearError(f), message),
        ret |-> message = "",
        message |-> message,
        tested |-> PatternsTested(f, value)]

(***************************************************************************)
(* Values for validateField                                                *)
(***************************************************************************)
Strings(alphabet, n) == UNION {[1..k -> alphabet] : k \in 0..n}

EmailAlphabet == {"a", "@", ".", " "}

PhoneAlphabet == {"1", " ", "-", "(", ")", "+", "a"}

PhoneAffix == {<<>>} \cup {<<c>> : c \in PhoneAlphabet}

DigitRun(n) == [k \in 1..n |-> "5"]

\* A run of digits with at most one more character on each side
PhoneStrings ==
    {p \o DigitRun(n) \o q : p \in PhoneAffix, q \in PhoneAffix, n \in 0..MaxDigits}

\* The values the specification names
UserAtExampleCom ==
    <<"u", "s", "e", "r", "@", "e", "x", "a", "m", "p", "l", "e", ".", "c", "o", "m">>
UserAt == <<"u", "s", "e", "r", "@">>
UserAtCom == <<"u", "s", "e", "r", "@", "c", "o", "m">>
UserSpaceExampleCom ==
    <<"u", "s", "e", "r", " ", "e", "x", "a", "m", "p", "l", "e", ".", "c", "o", "m">>
FooAtBar == <<"f", "o", "o", "@", "b", "a", "r">>
FormattedPhone == <<"(", "5", "5", "5", ")", " ", "1", "2", "3", "-", "4", "5", "6", "7">>
PhoneWithLetter == <<"5", "5", "5", "-", "1", "2", "a", "-", "3", "4", "5", "6">>
TenDigits == <<"5", "5", "5", "1", "2", "3", "4", "5", "6", "7">>
PaddedEmail == <<"\t", "a", "@", "b", ".", "c", "\n">>

Samples ==
    {UserAtExampleCom, UserAt, UserAtCom, UserSpaceExampleCom, FooAtBar,
     FormattedPhone, PhoneWithLetter, TenDigits, PaddedEmail}

Values == Strings(EmailAlphabet, MaxEmailLen) \cup PhoneStrings \cup Samples

(***************************************************************************)
(* Form validation: the forms of the page and their listeners              *)
(***************************************************************************)
\* form.querySelectorAll('input, textarea, select') of every validated form,
\* in document order
Fields == 1..NumFields

\* The form[data-validate] an input sits in: the page has a form holding
\* all inputs but the last, and a second form holding the last one.
FormOf(i) == IF i < NumFields THEN 1 ELSE 2

\* document.querySelectorAll('form[data-validate]')
forms == {FormOf(i) : i \in Fields}

\* `inputs` of main.js:167
inputs(f) == {i \in Fields : FormOf(i) = f}

\* The page of the dynamic specification: input.type by position
TypeAt(i) == <<"text", "email", "tel", "textarea">>[((i - 1) % 4) + 1]

\* ... which inputs have the required attribute
RequiredAt(i) == i % 2 = 1

\* ... and which inputs have an aria-describedby that resolves to an element
ErrElAt(i) == i % 3 # 0

\* Values typed into the fields of the dynamic specification
FormValues == {<<>>, FooAtBar, UserAtExampleCom, TenDigits}

\* A field as the page markup can give it: with or without the error class
FieldStates(values, types, requireds, targets, markers) ==
    {[value |-> v, type |-> t, required |-> r, hasErrorEl |-> h, error |-> e,
      errText |-> IF e /\ h THEN MsgEmail ELSE "",
      errDisplay |-> IF e /\ h THEN "block" ELSE ""] :
        v \in values, t \in types, r \in requireds, h \in targets, e \in markers}

NoCall == [target |-> 0, ret |-> TRUE, message |-> "", tested |-> {}]

CallOf(i, r) == [target |-> i, ret |-> r.ret, message |-> r.message, tested |-> r.tested]

Event(kind, target) == [kind |-> kind, target |-> target, focusWas |-> focus]

Min(S) == CHOOSE x \in S : \A y \in S : x <= y

Max(S) == CHOOSE x \in S : \A y \in S : x >= y

\* The user moves the focus into field i (no listener of main.js runs)
FocusIn(i) ==
    /\ focus = 0
    /\ focus' = i
    /\ formEvent' = Event("focus", i)
    /\ prevented' = FALSE
    /\ lastCall' = NoCall
    /\ UNCHANGED fields
    /\ UNCHANGED besidesForm

\* The blur listener of main.js:171-173: field i loses the focus to `to`
Blur(i, to) ==
    /\ focus = i
    /\ to # i
    /\ \E r \in {validateField(fields[i])} :
         /\ fields' = [fields EXCEPT ![i] = r.field]
         /\ lastCall' = CallOf(i, r)
    /\ focus' = to
    /\ formEvent' = Event("blur", i)
    /\ prevented' = FALSE
    /\ UNCHANGED besidesForm

\* A slip of main.js:177: validation run where the error is to be cleared
OnInputValidate(f) == validateField(f).field

\* The body of the input listener of main.js:176-178
OnInput(f) == clearError(f)

\* The input listener: the value of field i has become v
Input(i, v) ==
    /\ v # fields[i].value
    /\ fields' = [fields EXCEPT ![i] = OnInput([@ EXCEPT !.value = v])]
    /\ formEvent' = Event("input", i)
    /\ prevented' = FALSE
    /\ lastCall' = NoCall
    /\ UNCHANGED focus
    /\ UNCHANGED besidesForm

\* A slip of main.js:185: a loop that stops at the first failing field
ValidatedUntilFailure(f, res) ==
    {i \in inputs(f) : \A j \in inputs(f) : j < i => res[j].ret}

\* The inputs the forEach of main.js:185 hands to validateField, given what
\* validateField does with each
Validated(f, res) == inputs(f)

\* A slip of main.js:186-188: isValid = validateField(input), the last one wins
IsValidLast(f, res) == res[Max(inputs(f))].ret

\* `isValid` after the forEach of main.js:183-189
IsValid(f, res) == \A i \in Validated(f, res) : res[i].ret

\* The submit listener of main.js:182-199 on form f. firstInvalid.focus()
\* takes the focus from the field that has it, whose blur listener runs.
\* (res, after and firstInvalid are bound by \E over a singleton so that each
\* is computed once.)
Submit(f) ==
    \E res \in {[i \in Fields |-> validateField(fields[i])]} :
    \E after \in {[i \in Fields |->
                     IF i \in Validated(f, res) THEN res[i].field ELSE fields[i]]} :
    \E firstInvalid \in {IF \E i \in inputs(f) : after[i].error
                           THEN Min({i \in inputs(f) : after[i].error})
                           ELSE 0} :
    \E isValid \in {IsValid(f, res)} :
    \E moves \in {~isValid /\ firstInvalid # 0 /\ firstInvalid # focus} :
        /\ IF moves /\ focus # 0
             THEN \E blurred \in {validateField(after[focus])} :
                    /\ fields' = [after EXCEPT ![focus] = blurred.field]
                    /\ lastCall' = CallOf(focus, blurred)
             ELSE /\ fields' = after
                  /\ lastCall' = CallOf(Max(Validated(f, res)),
                                        res[Max(Validated(f, res))])
        /\ prevented' = ~isValid
        /\ focus' = IF moves THEN firstInvalid ELSE focus
        /\ formEvent' = Event("submit", f)
        /\ UNCHANGED besidesForm

FocusInStep == \E i \in Fields : FocusIn(i)

BlurStep == \E i \in Fields : \E to \in Fields \cup {0} : Blur(i, to)

\* An empty optional text field with no error target
RestField == [value |-> <<>>, type |-> "text", required |-> FALSE, hasErrorEl |-> FALSE,
              error |-> FALSE, errText |-> "", errDisplay |-> ""]

\* How many clearError calls in a row field i has just had
ClearsOf(i) ==
    IF formEvent.kind = "clearError" /\ formEvent.target = i THEN formEvent.nth ELSE 0

\* clearError(input) called on field i, by whatever caller
ClearError(i) ==
    /\ ClearsOf(i) < MaxClears
    /\ fields' = [fields EXCEPT ![i] = clearError(@)]
    /\ formEvent' = [kind |-> "clearError", target |-> i, focusWas |-> focus,
                     nth |-> ClearsOf(i) + 1,
                     before |-> IF ClearsOf(i) = 0 THEN fields[i] ELSE formEvent.before,
                     once |-> IF ClearsOf(i) = 0 THEN clearError(fields[i])
                              ELSE formEvent.once]
    /\ prevented' = FALSE
    /\ lastCall' = NoCall
    /\ UNCHANGED focus
    /\ UNCHANGED besidesForm

ClearErrorStep == \E i \in Fields : ClearError(i)

\* The error states of a field: marked or not, with an error target holding
\* any text and any display, or with none
ErrorStates ==
    {[RestField EXCEPT !.hasErrorEl = h, !.error = e, !.errText = t, !.errDisplay = d] :
        h \in {TRUE}, e \in BOOLEAN, t \in {"", MsgRequired, MsgEmail},
        d \in {"", "none", "block"}}
    \cup {[RestField EXCEPT !.error = e] : e \in BOOLEAN}

InputStep == \E i \in Fields : \E v \in FormValues : Input(i, v)

SubmitStep == \E f \in forms : Submit(f)

(***************************************************************************)
(* Mobile menu                                                             *)
(***************************************************************************)
\* What the page holds of .mobile-menu-btn, its .icon and .mobile-nav
MenuKinds == {"full", "noIcon", "noTrigger", "noDrawer"}

\* menuBtn is not null
HasTrigger(m) == m.markup # "noTrigger"

\* mobileNav is not null
HasDrawer(m) == m.markup # "noDrawer"

\* menuIcon is not null or undefined
HasIcon(m) == m.markup \in {"full", "noDrawer"}

\* `if (!menuBtn || !mobileNav) return;` : the listeners exist past this line
Listening(m) == HasTrigger(m) /\ HasDrawer(m)

\* The page at load: the drawer closed, the trigger saying so and showing
\* the menu icon; initMobileMenu writes nothing.
MenuAtLoad(kind) ==
    [markup |-> kind,
     active |-> FALSE,
     expanded |-> IF kind = "noTrigger" THEN "none" ELSE "false",
     icon |-> IF kind \in {"full", "noDrawer"} THEN "menu" ELSE "none"]

\* Where a click can land: the trigger itself, its .icon, the <use> inside
\* the .icon (the node innerHTML replaces), a .mobile-nav-link, the drawer
\* off its links, the rest of the page.
MenuTargets == {"btn", "icon", "use", "link", "drawer", "outside"}

TargetExists(m, t) ==
    CASE t = "btn" -> HasTrigger(m)
      [] t \in {"icon", "use"} -> HasIcon(m)
      [] t \in {"link", "drawer"} -> HasDrawer(m)
      [] OTHER -> TRUE

NoMenuEvent == [target |-> "none", link |-> 0, wasOpen |-> FALSE, attached |-> TRUE]

\* A slip of main.js:85-87: the two icons swapped
IconForSwapped(isOpenNow) == IF isOpenNow THEN "menu" ELSE "close"

\* The ternary of main.js:85-87
IconFor(isOpenNow) == IF isOpenNow THEN "close" ELSE "menu"

\* The body of the trigger's click listener, main.js:79-87
TriggerClicked(m) ==
    [m EXCEPT !.active = ~m.active,
              !.expanded = BoolAttr(~m.active),
              !.icon = IF HasIcon(m) THEN IconFor(~m.active) ELSE @]

\* The body of a link's click listener, main.js:94-98, which is also the body
\* of the `if` of the document's listener, main.js:105-109
MenuClosed(m) ==
    [m EXCEPT !.active = FALSE,
              !.expanded = "false",
              !.icon = IF HasIcon(m) THEN "menu" ELSE @]

\* mobileNav.contains(e.target)
InDrawer(e) == e.target \in {"link", "drawer"}

\* menuBtn.contains(e.target): a node that innerHTML removed from the .icon
\* is no longer contained in the trigger
InTrigger(e) == e.target \in {"btn", "icon"} \/ (e.target = "use" /\ e.attached)

\* A click is dispatched on target t (link l when t is a link)
MenuClick(t, l) ==
    /\ menuPc = "idle"
    /\ TargetExists(menu, t)
    /\ (t = "link") = (l # 0)
    /\ menuEvent' = [target |-> t, link |-> l, wasOpen |-> menu.active, attached |-> TRUE]
    /\ menuPc' = "target"
    /\ UNCHANGED menu
    /\ UNCHANGED besidesMenu

\* The click reaches the listener on its way up, if there is one: the
\* trigger's (main.js:78-88) or the link's (main.js:93-99)
MenuTargetListener ==
    /\ menuPc = "target"
    /\ IF Listening(menu) /\ menuEvent.target \in {"btn", "icon", "use"}
         THEN /\ menu' = TriggerClicked(menu)
              /\ menuEvent' = [menuEvent EXCEPT
                                  !.attached = ~(menuEvent.target = "use" /\ HasIcon(menu))]
         ELSE IF Listening(menu) /\ menuEvent.target = "link"
         THEN /\ menu' = MenuClosed(menu)
              /\ UNCHANGED menuEvent
         ELSE UNCHANGED <<menu, menuEvent>>
    /\ menuPc' = "document"
    /\ UNCHANGED besidesMenu

\* The click has bubbled to the document: the listener of main.js:103-111
MenuDocumentListener ==
    /\ menuPc = "document"
    /\ IF Listening(menu) /\ ~InDrawer(menuEvent) /\ ~InTrigger(menuEvent)
         THEN menu' = MenuClosed(menu)
         ELSE UNCHANGED menu
    /\ menuPc' = "idle"
    /\ UNCHANGED menuEvent
    /\ UNCHANGED besidesMenu

MenuClickStep ==
    \/ \E t \in MenuTargets : \E l \in 0..NumLinks : MenuClick(t, l)
    \/ MenuTargetListener
    \/ MenuDocumentListener

(***************************************************************************)
(* Scroll reveal                                                           *)
(***************************************************************************)
Nodes == 1..NumNodes

\* The class of each element, by position: .reveal, .reveal-stagger, neither
ClassAt(e) ==
    CASE e % 3 = 1 -> "reveal"
      [] e % 3 = 2 -> "reveal-stagger"
      [] OTHER -> "plain"

\* A slip of main.js:21: '.reveal-stagger' missing from the selector
revealElementsNoStagger == {e \in Nodes : ClassAt(e) = "reveal"}

\* document.querySelectorAll('.reveal, .reveal-stagger')
revealElements == {e \in Nodes : ClassAt(e) \in {"reveal", "reveal-stagger"}}

\* initScrollReveal, main.js:20-48
InitScrollReveal ==
    /\ revealPc = "load"
    /\ revealPc' = "ready"
    /\ IF reducedMotion
         THEN /\ revealed' = [e \in Nodes |-> revealed[e] \/ e \in revealElements]
              /\ UNCHANGED <<observed, observer>>
         ELSE /\ observer' = [created |-> TRUE,
                              observeCalls |-> Cardinality(revealElements)]
              /\ observed' = revealElements
              /\ UNCHANGED revealed
    /\ revealEvent' = [revealEvent EXCEPT !.kind = "init"]
    /\ UNCHANGED reducedMotion
    /\ UNCHANGED besidesReveal

\* A slip of main.js:35: the test of isIntersecting left out
MustRevealAlways(entry) == TRUE

\* `if (entry.isIntersecting)` of main.js:35
MustReveal(entry) == entry.isIntersecting

\* entries.forEach(entry => ...) of main.js:34-40, from the classes and the
\* observed set it starts with
RECURSIVE Deliver(_, _, _)
Deliver(rev, obs, entries) ==
    IF entries = <<>> THEN [revealed |-> rev, observed |-> obs]
    ELSE LET entry == Head(entries)
         IN IF MustReveal(entry)
              THEN Deliver([rev EXCEPT ![entry.target] = TRUE],
                           obs \ {entry.target}, Tail(entries))
              ELSE Deliver(rev, obs, Tail(entries))

\* The batches of at most n entries on the targets of a set
RECURSIVE Batches(_, _)
Batches(targets, n) ==
    IF n = 0 THEN {<<>>}
    ELSE LET shorter == Batches(targets, n - 1)
         IN shorter \cup
            {Append(b, [target |-> t, isIntersecting |-> x]) :
               b \in {c \in shorter : Len(c) = n - 1}, t \in targets, x \in BOOLEAN}

\* The observer calls its callback with a batch of entries, each on an
\* element it observed when the batch was gathered
ObserverCallback(entries) ==
    /\ revealPc = "ready"
    /\ observer.created
    /\ entries # <<>>
    /\ \E after \in {Deliver(revealed, observed, entries)} :
          /\ revealed' = after.revealed
          /\ observed' = after.observed
    /\ revealEvent' = [kind |-> "callback", atLoad |-> revealEvent.atLoad,
                       entries |-> entries, revealedBefore |-> revealed,
                       observedBefore |-> observed]
    /\ UNCHANGED <<observer, reducedMotion, revealPc>>
    /\ UNCHANGED besidesReveal

ObserverCallbackStep == \E entries \in Batches(observed, MaxBatch) : ObserverCallback(entries)

(***************************************************************************)
(* Phone formatter                                                         *)
(***************************************************************************)
\* String.prototype.slice(a, b) for 0 <= a and 0 <= b, on a sequence
slice(s, a, b) == SubSeq(s, a + 1, Min({b, Len(s)}))

\* A slip of main.js:308: slice(6) in place of slice(6, 10)
formatPhoneUncapped(v) ==
    LET value == DigitsOf(v)
    IN IF Len(value) > 0
         THEN IF Len(value) <= 3 THEN <<"(">> \o value
              ELSE IF Len(value) <= 6
                THEN <<"(">> \o slice(value, 0, 3) \o <<")", " ">>
                     \o slice(value, 3, Len(value))
              ELSE <<"(">> \o slice(value, 0, 3) \o <<")", " ">>
                   \o slice(value, 3, 6) \o <<"-">> \o slice(value, 6, Len(value))
         ELSE value

\* formatPhone(input), main.js:299-311: the value it gives input.value v
formatPhone(v) ==
    LET value == DigitsOf(v)
    IN IF Len(value) > 0
         THEN IF Len(value) <= 3 THEN <<"(">> \o value
              ELSE IF Len(value) <= 6
                THEN <<"(">> \o slice(value, 0, 3) \o <<")", " ">>
                     \o slice(value, 3, Len(value))
              ELSE <<"(">> \o slice(value, 0, 3) \o <<")", " ">>
                   \o slice(value, 3, 6) \o <<"-">> \o slice(value, 6, 10)
         ELSE value

\* The digits 1234567890 over and over, n of them
CountRun(n) == [k \in 1..n |-> <<"1", "2", "3", "4", "5", "6", "7", "8", "9", "0">>[((k - 1) % 10) + 1]]

\* A run with character c put before each of its digits
Spaced(run, c) == [k \in 1..(2 * Len(run)) |-> IF k % 2 = 1 THEN c ELSE run[k \div 2]]

\* The values found in the input before any formatting: runs of digits,
\* bare, wrapped or spaced out, and the values the specification names
PhoneInputs ==
    {p \o CountRun(n) \o q : p \in PhoneAffix, q \in PhoneAffix, n \in 0..MaxDigits}
    \cup {Spaced(CountRun(n), c) : n \in 0..MaxDigits, c \in {"a", "-", " "}}
    \cup {TenDigits, FormattedPhone, PhoneWithLetter}

\* The characters typed at the end of the value
TypedChars == {"5", "1", "a", "-"}

\* formatPhone(input) is called on the value as it is
FormatPhone ==
    /\ phoneInput' = formatPhone(phoneInput)
    /\ phoneEvent' = [kind |-> "format", raw |-> phoneInput]
    /\ UNCHANGED besidesPhone

\* The user types character c at the end of the value, the input's handler
\* calls formatPhone(input)
TypeChar(c) ==
    /\ phoneInput' = formatPhone(Append(phoneInput, c))
    /\ phoneEvent' = [kind |-> "format", raw |-> Append(phoneInput, c)]
    /\ UNCHANGED besidesPhone

TypeCharStep == \E c \in TypedChars : TypeChar(c)

(***************************************************************************)
(* Specifications                                                          *)
(***************************************************************************)
\* The menu at rest: a full one, closed, no click dispatched
MenuRest ==
    /\ menu = MenuAtLoad("full")
    /\ menuPc = "idle"
    /\ menuEvent = NoMenuEvent

\* The reveal at rest: no eligible element, initScrollReveal has run
RevealRest ==
    /\ revealed = <<>>
    /\ observed = {}
    /\ observer = [created |-> FALSE, observeCalls |-> 0]
    /\ reducedMotion = TRUE
    /\ revealPc = "ready"
    /\ revealEvent = [kind |-> "init"]

\* The phone input at rest: empty, never formatted
PhoneRest ==
    /\ phoneInput = <<>>
    /\ phoneEvent = [kind |-> "none"]

\* The accordion at rest: every item full and closed
FaqRest ==
    /\ markup = [i \in faqItems |-> "full"]
    /\ open = [i \in faqItems |-> FALSE]
    /\ ariaExpanded = [i \in faqItems |-> "false"]
    /\ pc = "idle"
    /\ item = 0
    /\ isOpen = FALSE
    /\ otherItem = 0
    /\ openBefore = {}
    /\ ariaBefore = ariaExpanded
    /\ keyEvent = NoKey
    /\ lastOp = "init"

\* The pages whose first n fields are drawn from fieldSets[1], ..., fieldSets[n]
RECURSIVE Pages(_, _)
Pages(fieldSets, n) ==
    IF n = 0 THEN {<<>>}
    ELSE {Append(fs, x) : fs \in Pages(fieldSets, n - 1), x \in fieldSets[n]}

\* State right after initFormValidation, which only adds listeners: field i
\* is any field of fieldSets[i], no event was dispatched yet.
FormInitWith(fieldSets, focusSet) ==
    /\ fields \in Pages(fieldSets, NumFields)
    /\ focus \in focusSet
    /\ prevented = FALSE
    /\ formEvent = [kind |-> "init", target |-> 0, focusWas |-> 0]
    /\ lastCall = NoCall

\* The forms at rest: empty optional text fields
FormRest == FormInitWith([i \in Fields |-> {RestField}], {0})

AtMostOne == {s \in SUBSET faqItems : Cardinality(s) <= 1}

\* Clicks only, from a page with at most one open panel.
InitClicks == FaqInitWith(AtMostOne) /\ FormRest /\ MenuRest /\ RevealRest /\ PhoneRest
NextClicks == ClickStep
SpecClicks == InitClicks /\ [][NextClicks]_vars

\* Clicks and toggleFaq calls, from a page with every panel closed.
InitToggle == FaqInitWith({{}}) /\ FormRest /\ MenuRest /\ RevealRest /\ PhoneRest
NextToggle == ClickStep \/ ToggleFaqStep
SpecToggle == InitToggle /\ [][NextToggle]_vars

\* Clicks and toggleFaq calls, from any page markup.
InitFaq == FaqInitWith(SUBSET faqItems) /\ FormRest /\ MenuRest /\ RevealRest /\ PhoneRest
NextFaq == ClickStep \/ ToggleFaqStep
SpecFaq == InitFaq /\ [][NextFaq]_vars

\* Clicks only, from any page markup.
NextAnyClicks == ClickStep
SpecAnyClicks == InitFaq /\ [][NextAnyClicks]_vars

\* Clicks and keydown events on the triggers, from any page markup.
NextKeys == ClickStep \/ KeyDownStep
SpecKeys == InitFaq /\ [][NextKeys]_vars

\* Clicks on triggers that carry both handlers, from any page markup.
NextBoth == BothHandlersStep
SpecBoth == InitFaq /\ [][NextBoth]_vars

\* The events of the validated forms, on a page of fields of fixed types.
InitForm ==
    /\ FaqRest
    /\ FormInitWith([i \in Fields |->
                       FieldStates(FormValues, {TypeAt(i)}, {RequiredAt(i)},
                                   {ErrElAt(i)}, BOOLEAN)],
                    {0})
    /\ MenuRest /\ RevealRest /\ PhoneRest
NextForm == FocusInStep \/ BlurStep \/ InputStep \/ SubmitStep
SpecForm == InitForm /\ [][NextForm]_vars

\* validateField on one field of any type, with any of Values; the blur
\* listener is the one that does nothing but call it.
InitValidate ==
    /\ FaqRest
    /\ FormInitWith([i \in Fields |->
                       IF i = 1 THEN FieldStates(Values, Types, BOOLEAN, BOOLEAN, BOOLEAN)
                       ELSE {RestField}],
                    {1})
    /\ MenuRest /\ RevealRest /\ PhoneRest
NextValidate == Blur(1, 0)
SpecValidate == InitValidate /\ [][NextValidate]_vars

\* Clicks on and around the mobile menu, on a page of any markup kind.
InitMenu ==
    /\ FaqRest /\ FormRest /\ RevealRest /\ PhoneRest
    /\ \E kind \in MenuKinds : menu = MenuAtLoad(kind)
    /\ menuPc = "idle"
    /\ menuEvent = NoMenuEvent
NextMenu == MenuClickStep
SpecMenu == InitMenu /\ [][NextMenu]_vars

\* The scroll reveal from page load, whatever classes the markup carries
\* and whatever the motion preference, then any batches of entries.
InitReveal ==
    /\ FaqRest /\ FormRest /\ MenuRest /\ PhoneRest
    /\ revealed \in [Nodes -> BOOLEAN]
    /\ observed = {}
    /\ observer = [created |-> FALSE, observeCalls |-> 0]
    /\ reducedMotion \in BOOLEAN
    /\ revealPc = "load"
    /\ revealEvent = [kind |-> "load", atLoad |-> revealed]
NextReveal == InitScrollReveal \/ ObserverCallbackStep
SpecReveal == InitReveal /\ [][NextReveal]_vars

\* clearError calls on fields found in any error state.
InitClear ==
    /\ FaqRest /\ MenuRest /\ RevealRest /\ PhoneRest
    /\ FormInitWith([i \in Fields |-> IF i <= NumDirty THEN ErrorStates ELSE {RestField}],
                    {0})
NextClear == ClearErrorStep
SpecClear == InitClear /\ [][NextClear]_vars

\* The phone input, from any of PhoneInputs, formatted as it is and as the
\* user types on.
InitPhone ==
    /\ FaqRest /\ FormRest /\ MenuRest /\ RevealRest
    /\ phoneInput \in PhoneInputs
    /\ phoneEvent = [kind |-> "none"]
NextPhone == FormatPhone \/ TypeCharStep
SpecPhone == InitPhone /\ [][NextPhone]_vars

\* The whole page: the controllers share no state, so a behaviour of the page
\* is one of each controller beside those of the others
Init == InitFaq \/ InitForm \/ InitMenu \/ InitReveal \/ InitPhone
Next == NextFaq \/ NextForm \/ NextMenu \/ NextReveal \/ NextPhone
Spec == Init /\ [][Next]_vars

(***************************************************************************)
(* Properties of the accordion                                             *)
(***************************************************************************)
OpenIn(g) == {i \in faqItems : GroupOf(i) = g /\ open[i]}

Groups == {GroupOf(i) : i \in faqItems}

\* A listener run has finished and nothing ran since
AfterClick == lastOp = "click" /\ pc = "idle"

\* C1: under clicks alone, from a page with at most one open panel, at most
\* one panel is open in every state, the states between two steps of one
\* listener run included.
C1_AtMostOneOpen == Cardinality(OpenSet) <= 1

\* A run clicked a closed panel while another was open, has closed that one
\* and has not opened its own yet.
C1_Witness ==
    /\ pc = "closing" /\ otherItem > NumItems
    /\ ~isOpen /\ openBefore # {} /\ OpenSet = {}

\* C2: from all panels closed, under clicks and toggleFaq calls, at most one
\* panel of each group is open.
C2_AtMostOneOpenPerGroup == \A g \in Groups : Cardinality(OpenIn(g)) <= 1

\* C3: when a click on the trigger of a closed panel B has run while panel A
\* of the same group was open, A is closed with aria-expanded "false" and B
\* is open with aria-expanded "true".
C3_OpenBWhileAOpen ==
    AfterClick =>
        \A A \in openBefore :
            (/\ item \notin openBefore
             /\ GroupOf(A) = GroupOf(item)
             /\ HasQuestion(A))
            => /\ ~open[A] /\ open[item]
               /\ ariaExpanded[A] = "false" /\ ariaExpanded[item] = "true"

C3_Witness ==
    /\ AfterClick
    /\ item \notin openBefore
    /\ \E A \in openBefore : GroupOf(A) = GroupOf(item) /\ HasQuestion(A)

\* C10: a click changes the open state and aria-expanded only in the group
\* of the clicked trigger: after a listener run every panel of another group
\* is open exactly when it was open before the run.
C10_OtherGroupsKeepState ==
    AfterClick =>
        \A j \in faqItems :
            GroupOf(j) # GroupOf(item) => (open[j] <=> j \in openBefore)

\* C11: whenever no listener is running, the aria-expanded of every wired
\* trigger says whether its panel is open, for any page markup, panels open
\* at load included.
C11_AriaMirrorsOpen ==
    pc = "idle" => \A i \in faqItems : Wired(i) => ariaExpanded[i] = BoolAttr(open[i])

\* A keydown listener has run to its end and nothing ran since
AfterKeyDown == lastOp = "keydown" /\ pc = "idle"

\* What one click on the trigger of item i leaves, from the panels open
\* before it and the attributes before it
ClickedOpen(i, before) == [j \in faqItems |-> j = i /\ j \notin before]

ClickedAria(i, before, aria) ==
    [j \in faqItems |->
        IF j = i THEN BoolAttr(j \notin before)
        ELSE IF j \in before /\ HasQuestion(j) THEN "false"
        ELSE aria[j]]

\* C14: Enter or Space on a focused trigger leaves what one click on it
\* leaves, with the key's default action suppressed; any other key leaves
\* the panels and the attributes as they were, its default untouched.
C14_KeyActsAsClick ==
    /\ AfterClick =>
          /\ open = ClickedOpen(item, openBefore)
          /\ ariaExpanded = ClickedAria(item, openBefore, ariaBefore)
    /\ AfterKeyDown =>
          IF keyEvent.key \in {"Enter", " "}
            THEN /\ open = ClickedOpen(item, openBefore)
                 /\ ariaExpanded = ClickedAria(item, openBefore, ariaBefore)
                 /\ keyEvent.prevented
            ELSE /\ OpenSet = openBefore
                 /\ ariaExpanded = ariaBefore
                 /\ ~keyEvent.prevented

\* Space on the trigger of a closed panel, another panel open: it has opened
C14_Witness ==
    /\ AfterKeyDown /\ keyEvent.key = " "
    /\ openBefore # {} /\ item \notin openBefore /\ open[item]

\* A click that ran both the inline handler and the listener has finished
AfterBothHandlers == lastOp \in {"inlineThenClick", "clickThenInline"} /\ pc = "idle"

\* C19: one click on a trigger that carries both the inline toggleFaq handler
\* and the listener, in either order, leaves a panel that was closed open
\* with aria-expanded "true", and one that was open closed with "false".
C19_BothHandlersToggleOnce ==
    AfterBothHandlers =>
        /\ open[item] <=> item \notin openBefore
        /\ ariaExpanded[item] = BoolAttr(item \notin openBefore)

\* C20: after a listener run, whatever was open before it, only the clicked
\* panel can be open, and it is open exactly when it was closed before.
C20_ClickRestoresExclusion ==
    AfterClick =>
        /\ OpenSet \subseteq {item}
        /\ open[item] <=> item \notin openBefore

\* A click on a closed panel while two others were open
C20_Witness ==
    /\ AfterClick
    /\ Cardinality(openBefore) >= 2 /\ item \notin openBefore /\ OpenSet = {item}

(***************************************************************************)
(* Properties of the mobile menu                                           *)
(***************************************************************************)
\* C12: from a closed drawer showing the menu icon, in every state reached
\* by clicks on the trigger, on links, elsewhere in the drawer and outside,
\* the icon is the close icon exactly when the drawer is active and the menu
\* icon exactly when it is not, and aria-expanded of the trigger says whether
\* the drawer is active.
C12_MenuConsistent ==
    /\ menu.markup # "noTrigger" => menu.expanded = (IF menu.active THEN "true" ELSE "false")
    /\ menu.markup \in {"full", "noDrawer"} =>
          /\ menu.icon = "close" <=> menu.active
          /\ menu.icon = "menu" <=> ~menu.active

\* A click on the trigger has opened the drawer, every listener has run
C12_Witness ==
    /\ menuPc = "idle" /\ menuEvent.target = "btn"
    /\ menu.active /\ menu.icon = "close" /\ menu.expanded = "true"

\* C13: once every listener a click reaches has run, a click on the trigger
\* has flipped the drawer exactly once, a click on a link or outside drawer
\* and trigger has left it closed, a click in the drawer off its links has
\* left it as it was.
C13_MenuTransitions ==
    (menuPc = "idle" /\ menu.markup \in {"full", "noIcon"}) =>
        CASE menuEvent.target \in {"btn", "icon", "use"} -> menu.active = ~menuEvent.wasOpen
          [] menuEvent.target \in {"link", "outside"} -> ~menu.active
          [] menuEvent.target = "drawer" -> menu.active = menuEvent.wasOpen
          [] OTHER -> ~menu.active

(***************************************************************************)
(* Properties of the scroll reveal                                         *)
(***************************************************************************)
\* The elements carrying .reveal or .reveal-stagger
Eligible == {e \in Nodes : ClassAt(e) # "plain"}

\* C15: once initScrollReveal has run, with the reduced-motion preference
\* every eligible element is revealed, no observer exists and no observe
\* call was made; without it initScrollReveal has revealed nothing itself
\* and every eligible element has been observed.
C15_ReducedMotion ==
    revealPc = "ready" =>
        IF reducedMotion
          THEN /\ \A e \in Eligible : revealed[e]
               /\ \A e \in Nodes \ Eligible : revealed[e] = revealEvent.atLoad[e]
               /\ ~observer.created
               /\ observer.observeCalls = 0
               /\ observed = {}
          ELSE /\ observer.created
               /\ observer.observeCalls = Cardinality(Eligible)
               /\ revealEvent.kind = "init" =>
                     /\ revealed = revealEvent.atLoad
                     /\ observed = Eligible

\* Reduced motion, on a page that loaded with no element revealed
C15_Witness ==
    /\ revealPc = "ready" /\ reducedMotion
    /\ \A e \in Nodes : ~revealEvent.atLoad[e]
    /\ \A e \in Eligible : revealed[e]

\* The entries of the last batch that report element e intersecting
Intersecting(event, e) ==
    {k \in 1..Len(event.entries) :
        event.entries[k].target = e /\ event.entries[k].isIntersecting}

\* C16: no step takes the revealed class off an element; a batch of entries
\* reveals and unobserves exactly the elements it reports intersecting and
\* changes nothing for the others; once initScrollReveal has run, every
\* eligible element is observed or revealed.
C16_RevealOnce ==
    [][/\ \A e \in DOMAIN revealed : revealed[e] => revealed'[e]
       /\ revealEvent'.kind = "callback" =>
             /\ \A e \in Nodes :
                   revealed'[e] = (revealEvent'.revealedBefore[e]
                                   \/ Intersecting(revealEvent', e) # {})
             /\ observed' = {e \in revealEvent'.observedBefore :
                               Intersecting(revealEvent', e) = {}}
       /\ revealPc' = "ready" =>
             \A e \in DOMAIN revealed' :
                 ClassAt(e) # "plain" => (e \in observed' \/ revealed'[e])]_vars

\* A batch that reported one element not intersecting and then another one
\* intersecting: the first is still hidden and observed, the second revealed
C16_Witness ==
    /\ revealEvent.kind = "callback"
    /\ Len(revealEvent.entries) = 2
    /\ ~revealEvent.entries[1].isIntersecting
    /\ revealEvent.entries[2].isIntersecting
    /\ revealEvent.entries[1].target # revealEvent.entries[2].target
    /\ ~revealed[revealEvent.entries[1].target]
    /\ revealEvent.entries[1].target \in observed
    /\ ~revealEvent.revealedBefore[revealEvent.entries[2].target]
    /\ revealed[revealEvent.entries[2].target]
    /\ revealEvent.entries[2].target \notin observed

(***************************************************************************)
(* Properties of the phone formatter                                       *)
(***************************************************************************)
\* The digits of a value, in order
Kept(v) == SelectSeq(v, LAMBDA c : c \in {"0", "1", "2", "3", "4", "5", "6", "7", "8", "9"})

\* The format of a run of digits d
Formatted(d) ==
    CASE Len(d) = 0 -> <<>>
      [] Len(d) \in 1..3 -> <<"(">> \o d
      [] Len(d) \in 4..6 -> <<"(", d[1], d[2], d[3], ")", " ">> \o SubSeq(d, 4, Len(d))
      [] OTHER -> <<"(", d[1], d[2], d[3], ")", " ", d[4], d[5], d[6], "-">>
                  \o SubSeq(d, 7, IF Len(d) < 10 THEN Len(d) ELSE 10)

\* C17: formatPhone leaves in the input the format of the digits of the value
\* it found: "" for none, "(" and the digits for 1 to 3, "(ddd) " and the
\* rest for 4 to 6, "(ddd) ddd-" and digits 7 to 10 for 7 or more; from
\* "5551234567" it leaves "(555) 123-4567".
C17_PhoneFormat ==
    phoneEvent.kind = "format" =>
        /\ phoneInput = Formatted(Kept(phoneEvent.raw))
        /\ phoneEvent.raw = <<"5", "5", "5", "1", "2", "3", "4", "5", "6", "7">> =>
              phoneInput = <<"(", "5", "5", "5", ")", " ", "1", "2", "3", "-", "4", "5", "6", "7">>

\* A value of more than ten digits among other characters was formatted
C17_Witness ==
    /\ phoneEvent.kind = "format"
    /\ Len(Kept(phoneEvent.raw)) > 10
    /\ Len(phoneEvent.raw) > Len(Kept(phoneEvent.raw))
    /\ phoneInput = <<"(", "1", "2", "3", ")", " ", "4", "5", "6", "-", "7", "8", "9", "0">>

(***************************************************************************)
(* Properties of the form validation                                       *)
(***************************************************************************)
\* The field fails the validation rules
Fails(f) == ~validateField(f).ret

\* The fields of form f that carry the error class
Marked(f) == {i \in inputs(f) : fields[i].error}

\* The fields of form f whose current value fails the rules
Failing(f) == {i \in inputs(f) : Fails(fields[i])}

AfterSubmit == formEvent.kind = "submit"

\* C4: after a submit event, if a field of the form fails validation the
\* default is prevented and the focus is on the first field of the form, in
\* document order, that carries the error class; if none fails, the default
\* is not prevented and the focus is where it was.
C4_SubmitGating ==
    AfterSubmit =>
        IF Failing(formEvent.target) # {}
          THEN /\ prevented
               /\ Marked(formEvent.target) # {}
               /\ focus = Min(Marked(formEvent.target))
          ELSE ~prevented /\ focus = formEvent.focusWas

\* A submit found two failing fields and moved the focus to the first
C4_Witness ==
    /\ AfterSubmit /\ prevented
    /\ Cardinality(Failing(formEvent.target)) >= 2
    /\ formEvent.focusWas # focus
    /\ focus = Min(Failing(formEvent.target))

\* C5: right after a submit listener run, the fields of the form that carry
\* the error class are exactly the fields whose value fails the rules.
C5_SubmitMarksExactlyFailing ==
    AfterSubmit => Marked(formEvent.target) = Failing(formEvent.target)

\* The submit of a form whose required text field is empty and whose email
\* field holds "foo@bar" has left exactly these two fields marked
C5_Witness ==
    /\ AfterSubmit /\ formEvent.target = 1
    /\ fields[1].required /\ fields[1].value = <<>>
    /\ fields[2].type = "email" /\ fields[2].value = FooAtBar
    /\ Marked(1) = {1, 2}

\* Every character of v is whitespace
Blank(v) == \A k \in 1..Len(v) : IsSpace(v[k])

\* A validateField call has returned; the field it was given
AfterCall == lastCall.target # 0
Called == fields[lastCall.target]

\* C6: a required field whose value is empty or all whitespace, of any type,
\* fails with the message "This field is required" and no pattern is tested;
\* a field that is not required and has such a value passes, of any type.
C6_RequiredShortCircuits ==
    (AfterCall /\ Blank(Called.value)) =>
        IF Called.required
          THEN /\ ~lastCall.ret
               /\ lastCall.message = MsgRequired
               /\ lastCall.tested = {}
               /\ Called.error
               /\ Called.hasErrorEl =>
                    Called.errText = MsgRequired /\ Called.errDisplay = "block"
          ELSE lastCall.ret /\ ~Called.error /\ lastCall.tested = {}

\* A required email field holding only whitespace was validated
C6_Witness ==
    /\ AfterCall /\ Called.required /\ Called.type = "email"
    /\ Called.value # <<>> /\ Blank(Called.value)
    /\ Called.hasErrorEl /\ Called.errText = MsgRequired

\* The shape the email rule asks of a trimmed value: no whitespace, exactly
\* one "@" with something before it, and after it a "." with at least one
\* character on each side.
EmailShape(v) ==
    /\ \A k \in 1..Len(v) : ~IsSpace(v[k])
    /\ Cardinality({k \in 1..Len(v) : v[k] = "@"}) = 1
    /\ \E at \in 2..Len(v) :
         /\ v[at] = "@"
         /\ \E dot \in (at + 2)..(Len(v) - 1) : v[dot] = "."

\* C7: an email field with a non-empty trimmed value passes exactly when that
\* value has the shape above, and fails with the email message otherwise;
\* "user@example.com" passes, "user@", "user@com", "user example.com" and
\* "foo@bar" fail.
C7_EmailRule ==
    (AfterCall /\ Called.type = "email" /\ ~Blank(Called.value)) =>
        /\ lastCall.ret <=> EmailShape(Trim(Called.value))
        /\ ~lastCall.ret => lastCall.message = MsgEmail /\ Called.error
        /\ Called.value = UserAtExampleCom => lastCall.ret
        /\ Called.value \in {UserAt, UserAtCom, UserSpaceExampleCom, FooAtBar}
             => ~lastCall.ret

\* "user@example.com" was validated as an email and passed
C7_Witness ==
    /\ AfterCall /\ Called.type = "email"
    /\ Called.value = UserAtExampleCom /\ lastCall.ret /\ ~Called.error

\* The number of digits of v
CountDigits(v) == Cardinality({k \in 1..Len(v) : v[k] \in Digit})

\* C8: a tel field with a non-empty trimmed value passes exactly when every
\* character of the value is a digit, whitespace, "-", "(", ")" or "+" and the
\* value has at least 10 digits, and fails with the phone message otherwise;
\* "(555) 123-4567" passes and "555-12a-3456" fails.
C8_PhoneRule ==
    (AfterCall /\ Called.type = "tel" /\ ~Blank(Called.value)) =>
        /\ lastCall.ret <=>
             /\ \A k \in 1..Len(Called.value) :
                  Called.value[k] \in Digit \cup WhiteSpace \cup {"-", "(", ")", "+"}
             /\ CountDigits(Called.value) >= 10
        /\ ~lastCall.ret => lastCall.message = MsgPhone /\ Called.error
        /\ Called.value = FormattedPhone => lastCall.ret
        /\ Called.value = PhoneWithLetter => ~lastCall.ret

\* "(555) 123-4567" was validated as a phone number and passed
C8_Witness ==
    /\ AfterCall /\ Called.type = "tel"
    /\ Called.value = FormattedPhone /\ lastCall.ret /\ ~Called.error

\* C9: an input event leaves its field without the error class and with an
\* empty, hidden message, whatever its value, and its listener makes no
\* validateField call; and the error class of a field
\* becomes set only in a step that dispatches a blur event to that field (by
\* the user, or by the focus() call of a submit listener) or a submit event
\* to its form.
C9_InputClears ==
    [][/\ formEvent'.kind = "input" =>
            /\ lastCall' = NoCall
            /\ ~fields'[formEvent'.target].error
            /\ fields'[formEvent'.target].hasErrorEl =>
                 /\ fields'[formEvent'.target].errText = ""
                 /\ fields'[formEvent'.target].errDisplay = "none"
       /\ \A i \in Fields :
            (~fields[i].error /\ fields'[i].error) =>
                \/ formEvent'.kind = "blur" /\ formEvent'.target = i
                \/ /\ formEvent'.kind = "submit"
                   /\ \/ formEvent'.target = FormOf(i)
                      \/ formEvent'.focusWas = i /\ focus' # i]_vars

\* After an input event the field holds a value that fails the rules and
\* shows no error
C9_Witness ==
    /\ formEvent.kind = "input"
    /\ Fails(fields[formEvent.target])
    /\ ~fields[formEvent.target].error
    /\ fields[formEvent.target].errDisplay = "none"


\* C18: however a field is found (marked or not, with or without an error
\* target, whatever its text), after two or more clearError calls in a row
\* it is exactly as the first call left it: marker absent and, where there
\* is a target, text empty and target hidden.
C18_ClearIdempotent ==
    formEvent.kind = "clearError" =>
        /\ fields[formEvent.target] = formEvent.once
        /\ ~fields[formEvent.target].error
        /\ fields[formEvent.target].hasErrorEl =>
              /\ fields[formEvent.target].errText = ""
              /\ fields[formEvent.target].errDisplay = "none"

\* The second call on a field found marked, its target showing a message
C18_Witness ==
    /\ formEvent.kind = "clearError" /\ formEvent.nth = 2
    /\ formEvent.before.error /\ formEvent.before.hasErrorEl
    /\ formEvent.before.errText # "" /\ formEvent.before.errDisplay = "block"
    /\ ~fields[formEvent.target].error

=============================================================================
